---- MODULE Spec2Model ----
(***************************************************************************)
(* The three validation scripts of the repository (validate_perks.py,      *)
(* validate_spells.py, validate_weapons.py): their markdown parsers, their *)
(* text normaliser, their value conversion and their comparators.          *)
(*                                                                         *)
(* Texts are TLA+ strings, read character by character with SubSeq.  The   *)
(* module's string literals are ASCII, so four characters stand for the    *)
(* typographic quotes of the Python source:                                *)
(*     "@"  is U+2018 (left single quote),  "^" is U+2019 (right single),  *)
(*     "{"  is U+201C (left double quote),  "}" is U+201D (right double).  *)
(* No text of the model uses these four characters in any other role.      *)
(***************************************************************************)
EXTENDS Integers, Sequences, FiniteSets, TLC

VARIABLES
    script,           \* which script runs: "perks", "spells", "weapons"
    pc,               \* the statement the script is at
    text,             \* the text handed to the parser / the function under call
    lines,            \* parser: the lines (or blocks) being iterated
    li,               \* parser: index of the next line (or block)
    current_spell,    \* parse_source_spells: current_spell
    current_damage,   \* parse_source_spells: current_damage
    effect_lines,     \* parse_source_spells: effect_lines
    crit_lines,       \* parse_source_spells: crit_lines
    in_crit,          \* parse_source_spells: in_crit
    in_table,         \* parse_source_weapons: in_table
    source,           \* the parsed mapping: lowercased name -> record
    dir,              \* the generated JSON files, sorted by file name
    fi,               \* compare_*: index of the next file
    discrepancies,    \* compare_*: the list being built
    generated_names,  \* compare_*: generated_names
    ret               \* values returned by the function calls made so far

vars == <<script, pc, text, lines, li, current_spell, current_damage,
          effect_lines, crit_lines, in_crit, in_table, source, dir, fi,
          discrepancies, generated_names, ret>>

parserVars == <<lines, li, current_spell, current_damage, effect_lines,
                crit_lines, in_crit, in_table>>

compareVars == <<dir, fi, discrepancies, generated_names>>

(***************************************************************************)
(* Python values                                                           *)
(***************************************************************************)

\* Python's None.  No text of the model contains "~".
None == "~None~"

\* The empty dict.
EmptyDict == [k \in {} |-> ""]

\* d.get(k, default)
Get(d, k, default) == IF k \in DOMAIN d THEN d[k] ELSE default

(***************************************************************************)
(* Python string methods                                                   *)
(***************************************************************************)

Ch(s, i) == SubSeq(s, i, i)

\* Characters str.split() and str.strip() treat as whitespace.
IsSpace(c) == c \in {" ", "\t", "\n"}

IsDigit(c) == c \in {"0", "1", "2", "3", "4", "5", "6", "7", "8", "9"}

StartsWith(s, p) == Len(s) >= Len(p) /\ SubSeq(s, 1, Len(p)) = p

EndsWith(s, p) == Len(s) >= Len(p) /\ SubSeq(s, Len(s) - Len(p) + 1, Len(s)) = p

\* p occurs in s at position i
OccursAt(s, p, i) == i + Len(p) - 1 <= Len(s) /\ SubSeq(s, i, i + Len(p) - 1) = p

\* p in s
Contains(s, p) == \E i \in 1..(Len(s) + 1) : OccursAt(s, p, i)

\* The least element of a non-empty set of integers.
Min(S) == CHOOSE x \in S : \A y \in S : x <= y

\* s.lstrip(), s.rstrip(), s.strip(): from the first character that is not
\* whitespace, up to the last.
LStrip(s) ==
    LET keep == {i \in 1..Len(s) : ~IsSpace(Ch(s, i))}
    IN  IF keep = {} THEN "" ELSE SubSeq(s, Min(keep), Len(s))

RStrip(s) ==
    LET keep == {i \in 1..Len(s) : ~IsSpace(Ch(s, i))}
    IN  IF keep = {} THEN "" ELSE SubSeq(s, 1, CHOOSE i \in keep : \A j \in keep : j <= i)

Strip(s) == LStrip(RStrip(s))

UpperCase == "ABCDEFGHIJKLMNOPQRSTUVWXYZ"
LowerCase == "abcdefghijklmnopqrstuvwxyz"

LowerCh(c) ==
    IF \E i \in 1..Len(UpperCase) : Ch(UpperCase, i) = c
    THEN Ch(LowerCase, CHOOSE i \in 1..Len(UpperCase) : Ch(UpperCase, i) = c)
    ELSE c

\* s.lower(): character by character (the string is halved to keep the
\* evaluation shallow).
RECURSIVE Lower(_)
Lower(s) ==
    IF s = "" THEN ""
    ELSE IF Len(s) = 1 THEN LowerCh(s)
    ELSE LET h == Len(s) \div 2
         IN  Lower(SubSeq(s, 1, h)) \o Lower(SubSeq(s, h + 1, Len(s)))

\* The first position at or after i where p occurs in s, 0 when there is none.
Find(s, p, i) ==
    LET at == {j \in i..Len(s) : OccursAt(s, p, j)}
    IN  IF at = {} THEN 0 ELSE Min(at)

\* s.replace(old, new), old non-empty: leftmost occurrences, non-overlapping.
RECURSIVE ReplaceFrom(_, _, _, _)
ReplaceFrom(s, old, new, i) ==
    LET j == Find(s, old, i)
    IN  IF j = 0 THEN SubSeq(s, i, Len(s))
        ELSE SubSeq(s, i, j - 1) \o new \o ReplaceFrom(s, old, new, j + Len(old))

Replace(s, old, new) == ReplaceFrom(s, old, new, 1)

\* s.split(sep), sep non-empty: always at least one piece.
RECURSIVE SplitFrom(_, _, _)
SplitFrom(s, sep, i) ==
    LET j == Find(s, sep, i)
    IN  IF j = 0 THEN <<SubSeq(s, i, Len(s))>>
        ELSE <<SubSeq(s, i, j - 1)>> \o SplitFrom(s, sep, j + Len(sep))

SplitOn(s, sep) == SplitFrom(s, sep, 1)

\* s.split(): the maximal runs of non-whitespace characters.
RECURSIVE WordsFrom(_, _)
WordsFrom(s, i) ==
    LET starts == {j \in i..Len(s) : ~IsSpace(Ch(s, j))}
    IN  IF starts = {} THEN <<>>
        ELSE LET b == Min(starts)
                 ends == {j \in b..Len(s) : IsSpace(Ch(s, j))}
                 e == IF ends = {} THEN Len(s) + 1 ELSE Min(ends)
             IN  <<SubSeq(s, b, e - 1)>> \o WordsFrom(s, e)

Words(s) == WordsFrom(s, 1)

\* sep.join(parts)
RECURSIVE Join(_, _)
Join(sep, parts) ==
    IF parts = <<>> THEN ""
    ELSE IF Len(parts) = 1 THEN parts[1]
    ELSE parts[1] \o sep \o Join(sep, Tail(parts))

\* s.count(c) for a single character c
Count(s, c) == Cardinality({i \in 1..Len(s) : Ch(s, i) = c})

\* set(seq)
ToSet(seq) == {seq[i] : i \in 1..Len(seq)}

(***************************************************************************)
(* normalize_text (validate_perks.py and validate_spells.py, identical)    *)
(***************************************************************************)

\* Index of the first ">" at or after position i, 0 when there is none.
FirstGt(s, i) == Find(s, ">", i)

\* The positions at or after i where re.sub(r'<[^>]+>', ...) can match: a "<"
\* whose first following ">" is at least two positions on.
TagStarts(s, i) == {k \in i..Len(s) : Ch(s, k) = "<" /\ FirstGt(s, k + 1) >= k + 2}

\* re.sub(r'<[^>]+>', '', s): scanning left to right, the leftmost match is
\* removed and the scan resumes behind it.
RECURSIVE StripTagsFrom(_, _)
StripTagsFrom(s, i) ==
    IF TagStarts(s, i) = {} THEN SubSeq(s, i, Len(s))
    ELSE LET k == Min(TagStarts(s, i))
         IN  SubSeq(s, i, k - 1) \o StripTagsFrom(s, FirstGt(s, k + 1) + 1)

\* A plausible slip: re.sub(..., count=1), only the first tag is removed.
StripFirstTagOnly(s) ==
    IF TagStarts(s, 1) = {} THEN s
    ELSE LET k == Min(TagStarts(s, 1))
         IN  SubSeq(s, 1, k - 1) \o SubSeq(s, FirstGt(s, k + 1) + 1, Len(s))

StripTags(s) == StripTagsFrom(s, 1)

\* ' '.join(text.split())
CollapseWhitespace(s) == Join(" ", Words(s))

\* .replace(U+2019, "'").replace(U+201C, '"').replace(U+201D, '"')
ReplaceQuotes(s) == Replace(Replace(Replace(s, "^", "'"), "{", "\""), "}", "\"")

normalize_text(t) ==
    IF t = "" THEN ""
    ELSE Strip(ReplaceQuotes(CollapseWhitespace(StripTags(t))))

(***************************************************************************)
(* Python dicts: the keys in insertion order and the mapping               *)
(***************************************************************************)

NewDict == [keys |-> <<>>, rec |-> EmptyDict]

\* k in d
In(k, d) == k \in DOMAIN d.rec

\* d[k] = v: a new key is appended, an existing key keeps its place.
DictSet(d, k, v) ==
    [keys |-> IF In(k, d) THEN d.keys ELSE Append(d.keys, k),
     rec  |-> (k :> v) @@ d.rec]

\* s[:n]
Prefix(s, n) == SubSeq(s, 1, IF Len(s) < n THEN Len(s) ELSE n)

(***************************************************************************)
(* compare_perks (validate_perks.py)                                       *)
(***************************************************************************)

\* perk_key = perk_name.lower()  (spell_key, weapon_key likewise)
ItemKeyAsWritten(name) == name

ItemKey(name) == Lower(name)

\* len(src_words & gen_words) / len(src_words | gen_words), or 0 when either
\* set is empty: the fraction <<numerator, denominator>>.
Similarity(src_words, gen_words) ==
    IF src_words # {} /\ gen_words # {}
    THEN <<Cardinality(src_words \cap gen_words), Cardinality(src_words \cup gen_words)>>
    ELSE <<0, 1>>

\* The threshold 0.9 of "similarity < 0.9", as ThresholdNum / ThresholdDen.
ThresholdNum == 9
ThresholdDen == 10

\* A plausible slip: similarity <= 0.9.
AtOrBelowThreshold(sim) == sim[1] * ThresholdDen <= ThresholdNum * sim[2]

\* similarity < 0.9
BelowThreshold(sim) == sim[1] * ThresholdDen < ThresholdNum * sim[2]

PerkSnippetLen == 150

\* The issues of one perk found in the source (lines 99-117).  The issue line
\* leaves out the formatted similarity figure.
PerkIssues(src, gen_system) ==
    LET src_desc == normalize_text(src.description)
        gen_desc == normalize_text(Get(gen_system, "description", ""))
        src_words == ToSet(Words(Lower(src_desc)))
        gen_words == ToSet(Words(Lower(gen_desc)))
    IN  IF src_desc # gen_desc /\ BelowThreshold(Similarity(src_words, gen_words))
        THEN << "DESCRIPTION MISMATCH",
                "  SOURCE: " \o Prefix(src_desc, PerkSnippetLen) \o "...",
                "  GENERATED: " \o Prefix(gen_desc, PerkSnippetLen) \o "..." >>
        ELSE <<>>

\* One iteration of "for filename in sorted(os.listdir(perks_dir))".
ComparePerksFile ==
    /\ script = "perks"
    /\ pc = "compare_files"
    /\ fi <= Len(dir)
    /\ LET filename == dir[fi].file
           generated == dir[fi].json
           perk_name == generated.name
           perk_key == ItemKey(perk_name)
           gen_system == Get(generated, "system", EmptyDict)
       IN  discrepancies' =
             IF ~EndsWith(filename, ".json") THEN discrepancies
             ELSE IF ~In(perk_key, source)
             THEN Append(discrepancies,
                         [perk |-> perk_name, file |-> filename,
                          issue |-> "NOT IN SOURCE - perk \"" \o perk_name
                                    \o "\" not found in source data"])
             ELSE LET issues == PerkIssues(source.rec[perk_key], gen_system)
                  IN  IF issues # <<>>
                      THEN Append(discrepancies,
                                  [perk |-> perk_name, file |-> filename, issues |-> issues])
                      ELSE discrepancies
    /\ fi' = fi + 1
    /\ UNCHANGED <<script, pc, text, source, dir, generated_names, ret, parserVars>>

(***************************************************************************)
(* compare_spells (validate_spells.py)                                     *)
(***************************************************************************)

\* How an f-string prints a value that is a string or None.
Str(v) == IF v = None THEN "None" ELSE v

SpellSnippetLen == 200

\* if gen_damage != src['damage']  (lines 120-123)
SpellDamageIssues(src, gen_system) ==
    LET gen_damage == Get(gen_system, "damageType", "")
    IN  IF gen_damage # src.damage
        THEN << "DAMAGE: source='" \o Str(src.damage) \o "' vs generated='"
                \o Str(gen_damage) \o "'" >>
        ELSE <<>>

\* lines 125-133
SpellEffectIssues(src, gen_system) ==
    LET src_effect == normalize_text(src.effect)
        gen_effect == normalize_text(Get(gen_system, "effect", ""))
    IN  IF src_effect # gen_effect
        THEN << "EFFECT MISMATCH",
                "  SOURCE: " \o Prefix(src_effect, SpellSnippetLen) \o "...",
                "  GENERATED: " \o Prefix(gen_effect, SpellSnippetLen) \o "..." >>
        ELSE <<>>

\* lines 135-142
SpellCritIssues(src, gen_system) ==
    LET src_crit == normalize_text(src.crit)
        gen_crit == normalize_text(Get(gen_system, "critEffect", ""))
    IN  IF src_crit # gen_crit
        THEN << "CRIT MISMATCH",
                "  SOURCE: '" \o src_crit \o "'",
                "  GENERATED: '" \o gen_crit \o "'" >>
        ELSE <<>>

SpellIssues(src, gen_system) ==
    SpellDamageIssues(src, gen_system) \o SpellEffectIssues(src, gen_system)
        \o SpellCritIssues(src, gen_system)

\* One iteration of "for filename in sorted(os.listdir(spells_dir))".
CompareSpellsFile ==
    /\ script = "spells"
    /\ pc = "compare_files"
    /\ fi <= Len(dir)
    /\ LET filename == dir[fi].file
           generated == dir[fi].json
           spell_name == generated.name
           spell_key == ItemKey(spell_name)
           gen_system == Get(generated, "system", EmptyDict)
       IN  discrepancies' =
             IF ~EndsWith(filename, ".json") THEN discrepancies
             ELSE IF ~In(spell_key, source)
             THEN Append(discrepancies,
                         [spell |-> spell_name, file |-> filename,
                          issue |-> "NOT IN SOURCE - spell not found in source data"])
             ELSE LET issues == SpellIssues(source.rec[spell_key], gen_system)
                  IN  IF issues # <<>>
                      THEN Append(discrepancies,
                                  [spell |-> spell_name, file |-> filename, issues |-> issues])
                      ELSE discrepancies
    /\ fi' = fi + 1
    /\ UNCHANGED <<script, pc, text, source, dir, generated_names, ret, parserVars>>

(***************************************************************************)
(* parse_value_to_copper and compare_weapons (validate_weapons.py)         *)
(***************************************************************************)

DigitValue(c) == CHOOSE d \in 0..9 : Ch("0123456789", d + 1) = c

\* int(s) for a string of digits
RECURSIVE DigitsValue(_)
DigitsValue(s) ==
    IF s = "" THEN 0
    ELSE 10 * DigitsValue(SubSeq(s, 1, Len(s) - 1)) + DigitValue(Ch(s, Len(s)))

\* str(n) for an integer n
RECURSIVE NatStr(_)
NatStr(n) ==
    IF n < 10 THEN Ch("0123456789", n + 1)
    ELSE NatStr(n \div 10) \o Ch("0123456789", (n % 10) + 1)

IntStr(n) == IF n < 0 THEN "-" \o NatStr(0 - n) ELSE NatStr(n)

\* Index of the last digit of the run of digits that starts at position i.
DigitRunEnd(s, i) ==
    LET stops == {j \in i..Len(s) : ~IsDigit(Ch(s, j))}
    IN  IF stops = {} THEN Len(s) ELSE Min(stops) - 1

\* re.search(r'(\d+)X', s).group(1) for a suffix character X, "" when there is
\* no match: the leftmost position where a run of digits is followed by X.
SearchCount(s, suffix) ==
    LET at == {i \in 1..Len(s) :
                  /\ IsDigit(Ch(s, i))
                  /\ DigitRunEnd(s, i) < Len(s)
                  /\ Ch(s, DigitRunEnd(s, i) + 1) = suffix}
    IN  IF at = {} THEN "" ELSE SubSeq(s, Min(at), DigitRunEnd(s, Min(at)))

GoldToCopper == 100
SilverToCopper == 10

\* A plausible slip: gold converted at the silver rate.
parse_value_gold_as_silver(value_str) ==
    IF value_str = "" \/ value_str = "-" THEN 0
    ELSE LET gold_match == SearchCount(value_str, "g")
             silver_match == SearchCount(value_str, "s")
         IN  (IF gold_match # "" THEN DigitsValue(gold_match) * SilverToCopper ELSE 0)
             + (IF silver_match # "" THEN DigitsValue(silver_match) * SilverToCopper ELSE 0)

parse_value_to_copper(value_str) ==
    IF value_str = "" \/ value_str = "-" THEN 0
    ELSE LET gold_match == SearchCount(value_str, "g")
             silver_match == SearchCount(value_str, "s")
         IN  (IF gold_match # "" THEN DigitsValue(gold_match) * GoldToCopper ELSE 0)
             + (IF silver_match # "" THEN DigitsValue(silver_match) * SilverToCopper ELSE 0)

\* int(s): an optional sign and at least one digit, else ValueError.  (Texts
\* of the model hold no underscore, which int() also accepts between digits.)
IntParse(s) ==
    LET t == Strip(s)
        signed == t # "" /\ Ch(t, 1) \in {"+", "-"}
        digits == IF signed THEN Tail(t) ELSE t
    IN  IF digits # "" /\ \A i \in 1..Len(digits) : IsDigit(Ch(digits, i))
        THEN [ok |-> TRUE,
              v |-> IF signed /\ Ch(t, 1) = "-" THEN 0 - DigitsValue(digits)
                    ELSE DigitsValue(digits)]
        ELSE [ok |-> FALSE, v |-> 0]

\* lines 105-111
WeaponDamageIssues(src, gen_system) ==
    LET src_damage == Strip(src.damage)
        gen_damage == Get(gen_system, "damage", "")
        src_normalized == IF StartsWith(src_damage, "1") \/ src_damage = "1"
                          THEN src_damage ELSE "1" \o src_damage
    IN  IF src_normalized # gen_damage /\ src_damage # gen_damage
        THEN << "DAMAGE: source='" \o src_damage \o "' vs generated='" \o gen_damage \o "'" >>
        ELSE <<>>

\* grip_map.get(code, code.lower())
GripMap(code) ==
    CASE code = "1H" -> "1h"
      [] code = "2H" -> "2h"
      [] code = "V" -> "versatile"
      [] code = "F" -> "fist"
      [] OTHER -> Lower(code)

\* lines 113-117
WeaponGripIssues(src, gen_system) ==
    LET expected_grip == GripMap(Strip(src.grip))
        gen_grip == Get(gen_system, "grip", "")
    IN  IF expected_grip # gen_grip
        THEN << "GRIP: source='" \o src.grip \o "' (" \o expected_grip
                \o ") vs generated='" \o gen_grip \o "'" >>
        ELSE <<>>

\* The body of the try block (lines 121-124): the issues it adds, or raised
\* when int() raises ValueError.
SlotsTry(src, gen_system) ==
    LET field == Strip(src.slots)
        parsed == IntParse(field)
        gen_slots == Get(gen_system, "slots", 0)
    IN  IF field \in {"-", ""}
        THEN [raised |-> FALSE,
              issues |-> IF 0 # gen_slots
                         THEN << "SLOTS: source=0 vs generated=" \o IntStr(gen_slots) >>
                         ELSE <<>>]
        ELSE IF ~parsed.ok THEN [raised |-> TRUE, issues |-> <<>>]
        ELSE [raised |-> FALSE,
              issues |-> IF parsed.v # gen_slots
                         THEN << "SLOTS: source=" \o IntStr(parsed.v) \o " vs generated="
                                 \o IntStr(gen_slots) >>
                         ELSE <<>>]

\* A plausible slip: no handler around the try body, so the ValueError of
\* int() leaves compare_weapons.
WeaponSlotsUnhandled(src, gen_system) == SlotsTry(src, gen_system)

\* try: ... except ValueError: pass  (lines 120-126)
WeaponSlotsCheck(src, gen_system) ==
    LET r == SlotsTry(src, gen_system)
    IN  IF r.raised THEN [raised |-> FALSE, issues |-> <<>>] ELSE r

\* lines 128-132
WeaponValueIssues(src, gen_system) ==
    LET src_value == parse_value_to_copper(src.value)
        gen_value == Get(gen_system, "value", 0)
    IN  IF src_value # gen_value
        THEN << "VALUE: source=" \o IntStr(src_value) \o "c (" \o src.value
                \o ") vs generated=" \o IntStr(gen_value) \o "c" >>
        ELSE <<>>

\* The checks of one weapon found in the source, in the order of the code: the
\* issues collected, or raised when an exception leaves the function.
WeaponChecks(src, gen_system) ==
    LET slots == WeaponSlotsCheck(src, gen_system)
    IN  IF slots.raised THEN [raised |-> TRUE, issues |-> <<>>]
        ELSE [raised |-> FALSE,
              issues |-> WeaponDamageIssues(src, gen_system)
                         \o WeaponGripIssues(src, gen_system)
                         \o slots.issues
                         \o WeaponValueIssues(src, gen_system)]

\* One iteration of "for filename in sorted(os.listdir(weapons_dir))".  An
\* exception that leaves compare_weapons ends the script.
CompareWeaponsFile ==
    /\ script = "weapons"
    /\ pc = "compare_files"
    /\ fi <= Len(dir)
    /\ LET filename == dir[fi].file
           generated == dir[fi].json
           weapon_name == generated.name
           weapon_key == ItemKey(weapon_name)
           gen_system == Get(generated, "system", EmptyDict)
           checks == IF EndsWith(filename, ".json") /\ In(weapon_key, source)
                     THEN WeaponChecks(source.rec[weapon_key], gen_system)
                     ELSE [raised |-> FALSE, issues |-> <<>>]
       IN  /\ discrepancies' =
                IF ~EndsWith(filename, ".json") THEN discrepancies
                ELSE IF ~In(weapon_key, source)
                THEN Append(discrepancies,
                            [weapon |-> weapon_name, file |-> filename,
                             issue |-> "NOT IN SOURCE - weapon \"" \o weapon_name
                                       \o "\" not found in source data"])
                ELSE IF ~checks.raised /\ checks.issues # <<>>
                THEN Append(discrepancies,
                            [weapon |-> weapon_name, file |-> filename,
                             issues |-> checks.issues])
                ELSE discrepancies
           /\ pc' = IF checks.raised THEN "error" ELSE pc
    /\ fi' = fi + 1
    /\ UNCHANGED <<script, text, source, dir, generated_names, ret, parserVars>>

(***************************************************************************)
(* The tail shared by compare_perks, compare_spells and compare_weapons    *)
(***************************************************************************)

\* The second pass over the directory: generated_names.
CollectGeneratedNames ==
    /\ pc = "compare_files"
    /\ fi > Len(dir)
    /\ generated_names' =
         {ItemKey(dir[i].json.name) : i \in {j \in 1..Len(dir) : EndsWith(dir[j].file, ".json")}}
    /\ pc' = "compare_missing"
    /\ fi' = 1
    /\ UNCHANGED <<script, text, source, dir, discrepancies, ret, parserVars>>

\* The key under which an entry names its item, and the item's word in the
\* MISSING message.
ItemField == CASE script = "perks" -> "perk" [] script = "spells" -> "spell" [] OTHER -> "weapon"

MissingEntry(name) ==
    (ItemField :> name) @@ [file |-> "MISSING",
                            issue |-> "MISSING - no generated file for this " \o ItemField]

\* One iteration of "for perk_key in source".
ReportMissing ==
    /\ pc = "compare_missing"
    /\ fi <= Len(source.keys)
    /\ LET key == source.keys[fi]
       IN  discrepancies' =
             IF key \notin generated_names
             THEN Append(discrepancies, MissingEntry(source.rec[key].name))
             ELSE discrepancies
    /\ fi' = fi + 1
    /\ UNCHANGED <<script, pc, text, source, dir, generated_names, ret, parserVars>>

\* return discrepancies
CompareReturn ==
    /\ pc = "compare_missing"
    /\ fi > Len(source.keys)
    /\ pc' = "done"
    /\ ret' = <<discrepancies>>
    /\ UNCHANGED <<script, text, source, dir, fi, discrepancies, generated_names, parserVars>>

(***************************************************************************)
(* parse_source_spells (validate_spells.py)                                *)
(***************************************************************************)

\* "if current_spell:" : neither None nor the empty string
Truthy(v) == v # None /\ v # ""

\* The locals of parse_source_spells as one record; spells is the dict built.
SpellLocals ==
    [spells |-> source, current_spell |-> current_spell,
     current_damage |-> current_damage, effect_lines |-> effect_lines,
     crit_lines |-> crit_lines, in_crit |-> in_crit]

\* "Save previous spell" / "Save last spell" (lines 35-43, 68-76)
SpellSave(st) ==
    IF Truthy(st.current_spell)
    THEN DictSet(st.spells, Lower(st.current_spell),
                 [name |-> st.current_spell,
                  damage |-> st.current_damage,
                  effect |-> Strip(Join("\n", st.effect_lines)),
                  crit |-> Strip(Join("\n", st.crit_lines))])
    ELSE st.spells

\* A plausible slip: the header branch without "in_crit = False".
SpellHeaderKeepsCrit(st, line) ==
    [spells |-> SpellSave(st),
     current_spell |-> Strip(SubSeq(line, 4, Len(line))),
     current_damage |-> None,
     effect_lines |-> <<>>,
     crit_lines |-> <<>>,
     in_crit |-> st.in_crit]

\* The branch of a "## " line (lines 33-49)
SpellHeader(st, line) ==
    [spells |-> SpellSave(st),
     current_spell |-> Strip(SubSeq(line, 4, Len(line))),
     current_damage |-> None,
     effect_lines |-> <<>>,
     crit_lines |-> <<>>,
     in_crit |-> FALSE]

\* The body of "for line in text.strip().split('\n')" (lines 30-65)
SpellStep(st, raw) ==
    LET line == RStrip(raw)
    IN  IF StartsWith(line, "## ") THEN SpellHeader(st, line)
        ELSE IF StartsWith(line, "**Damage Base:**")
        THEN LET damage == Strip(Replace(line, "**Damage Base:**", ""))
             IN  [st EXCEPT !.current_damage = IF damage = "-" THEN "" ELSE Lower(damage)]
        ELSE IF StartsWith(line, "**Crit:**")
        THEN LET crit_text == Strip(Replace(line, "**Crit:**", ""))
             IN  [st EXCEPT !.in_crit = TRUE,
                            !.crit_lines = IF crit_text # "" THEN Append(@, crit_text) ELSE @]
        ELSE IF Truthy(st.current_spell) /\ line # "" /\ ~StartsWith(line, "---")
        THEN IF st.in_crit
             THEN [st EXCEPT !.crit_lines = Append(@, line)]
             ELSE [st EXCEPT !.effect_lines = Append(@, line)]
        ELSE st

\* lines 22-29: the locals, and the lines to iterate.
SpellParseStart ==
    /\ script = "spells"
    /\ pc = "parse"
    /\ source' = NewDict
    /\ current_spell' = None
    /\ current_damage' = None
    /\ effect_lines' = <<>>
    /\ crit_lines' = <<>>
    /\ in_crit' = FALSE
    /\ lines' = SplitOn(Strip(text), "\n")
    /\ li' = 1
    /\ pc' = "parse_lines"
    /\ UNCHANGED <<script, text, in_table, ret, compareVars>>

SpellParseLine ==
    /\ script = "spells"
    /\ pc = "parse_lines"
    /\ li <= Len(lines)
    /\ LET st == SpellStep(SpellLocals, lines[li])
       IN  /\ source' = st.spells
           /\ current_spell' = st.current_spell
           /\ current_damage' = st.current_damage
           /\ effect_lines' = st.effect_lines
           /\ crit_lines' = st.crit_lines
           /\ in_crit' = st.in_crit
    /\ li' = li + 1
    /\ UNCHANGED <<script, pc, text, lines, in_table, ret, compareVars>>

\* lines 67-78: the last spell is saved and the dict returned.
SpellParseReturn ==
    /\ script = "spells"
    /\ pc = "parse_lines"
    /\ li > Len(lines)
    /\ source' = SpellSave(SpellLocals)
    /\ pc' = "parsed"
    /\ UNCHANGED <<script, text, lines, li, current_spell, current_damage,
                   effect_lines, crit_lines, in_crit, in_table, ret, compareVars>>

\* main: discrepancies = compare_*(source, dir)
MainCompare ==
    /\ pc = "parsed"
    /\ pc' = "compare_files"
    /\ fi' = 1
    /\ discrepancies' = <<>>
    /\ UNCHANGED <<script, text, source, dir, generated_names, ret, parserVars>>

(***************************************************************************)
(* parse_source_perks (validate_perks.py)                                  *)
(***************************************************************************)

SectionMarker == "## Full Perk Descriptions"

\* line 25
DescSection(t) == IF Contains(t, SectionMarker) THEN SplitOn(t, SectionMarker)[2] ELSE t

\* line 38
CategoryHeaders ==
    {"Stat-Based Perks (No Training Required)", "Spell-Based Perks", "No Prerequisites"}

\* A plausible slip: name = lines[0], not stripped.
PerkNameUnstripped(block_lines) == block_lines[1]

\* name = lines[0].strip()
PerkName(block_lines) == Strip(block_lines[1])

\* The inner loop (lines 41-48) from line i on: prereq and description_lines.
RECURSIVE PerkBody(_, _, _, _)
PerkBody(block_lines, i, prereq, description_lines) ==
    IF i > Len(block_lines)
    THEN [prereq |-> prereq, description_lines |-> description_lines]
    ELSE LET line == block_lines[i]
         IN  IF StartsWith(line, "**Prerequisite:**")
             THEN PerkBody(block_lines, i + 1,
                           Strip(Replace(line, "**Prerequisite:**", "")), description_lines)
             ELSE IF Strip(line) # "" /\ ~StartsWith(line, "---")
             THEN PerkBody(block_lines, i + 1, prereq, Append(description_lines, line))
             ELSE PerkBody(block_lines, i + 1, prereq, description_lines)

\* The body of "for block in perk_blocks[1:]" (lines 31-57): the dict after
\* the block.
PerkBlock(perks, block) ==
    LET block_lines == SplitOn(Strip(block), "\n")
        name == PerkName(block_lines)
        body == PerkBody(block_lines, 2, "", <<>>)
        description == Strip(Join(" ", body.description_lines))
    IN  IF name \in CategoryHeaders THEN perks
        ELSE IF name # "" /\ description # ""
        THEN DictSet(perks, Lower(name),
                     [name |-> name, prerequisite |-> body.prereq,
                      description |-> description])
        ELSE perks

\* lines 22-28: the blocks; the first is skipped.
PerkParseStart ==
    /\ script = "perks"
    /\ pc = "parse"
    /\ source' = NewDict
    /\ lines' = SplitOn(DescSection(text), "\n### ")
    /\ li' = 2
    /\ pc' = "parse_blocks"
    /\ UNCHANGED <<script, text, current_spell, current_damage, effect_lines,
                   crit_lines, in_crit, in_table, ret, compareVars>>

PerkParseBlock ==
    /\ script = "perks"
    /\ pc = "parse_blocks"
    /\ li <= Len(lines)
    /\ source' = PerkBlock(source, lines[li])
    /\ li' = li + 1
    /\ UNCHANGED <<script, pc, text, lines, current_spell, current_damage,
                   effect_lines, crit_lines, in_crit, in_table, ret, compareVars>>

\* return perks
PerkParseReturn ==
    /\ script = "perks"
    /\ pc = "parse_blocks"
    /\ li > Len(lines)
    /\ pc' = "parsed"
    /\ UNCHANGED <<script, text, source, parserVars, ret, compareVars>>

(***************************************************************************)
(* parse_source_weapons (validate_weapons.py)                              *)
(***************************************************************************)

\* The text whose presence in a line makes it the header row (line 29).
WeaponHeader == "| Weapon | Damage | Grip |"

\* line.count('|') >= 7 (line 34) and len(parts) >= 7 (line 36).
MinPipes == 7
MinParts == 7

\* A plausible slip: the split taken whole, without the slice [1:-1] that
\* drops the text before the first pipe and after the last.
WeaponPartsUnsliced(line) ==
    LET cells == SplitOn(line, "|")
    IN  [i \in 1..Len(cells) |-> Strip(cells[i])]

\* [p.strip() for p in line.split('|')[1:-1]]
WeaponParts(line) ==
    LET cells == SplitOn(line, "|")
    IN  [i \in 1..(Len(cells) - 2) |-> Strip(cells[i + 1])]

\* lines 37-53: the record of a row.
WeaponRecord(parts) ==
    [name |-> parts[1], damage |-> parts[2], grip |-> parts[3],
     range |-> parts[4], properties |-> parts[5], value |-> parts[6],
     slots |-> parts[7]]

\* The locals of parse_source_weapons as one record.
WeaponLocals == [weapons |-> source, in_table |-> in_table]

\* One iteration of "for line in lines" (lines 29-55).
WeaponStep(st, line) ==
    IF Contains(line, WeaponHeader)
    THEN [st EXCEPT !.in_table = TRUE]
    ELSE IF st.in_table /\ StartsWith(line, "|---")
    THEN st
    ELSE IF st.in_table /\ StartsWith(line, "|") /\ Count(line, "|") >= MinPipes
    THEN LET parts == WeaponParts(line)
         IN  IF Len(parts) >= MinParts /\ parts[1] # "Weapon"
             THEN [st EXCEPT !.weapons = DictSet(st.weapons, Lower(parts[1]),
                                                 WeaponRecord(parts))]
             ELSE st
    ELSE IF st.in_table /\ ~StartsWith(line, "|")
    THEN [st EXCEPT !.in_table = FALSE]
    ELSE st

\* lines 22-26: the locals, and the lines to iterate.
WeaponParseStart ==
    /\ script = "weapons"
    /\ pc = "parse"
    /\ source' = NewDict
    /\ lines' = SplitOn(text, "\n")
    /\ in_table' = FALSE
    /\ li' = 1
    /\ pc' = "parse_lines"
    /\ UNCHANGED <<script, text, current_spell, current_damage, effect_lines,
                   crit_lines, in_crit, ret, compareVars>>

WeaponParseLine ==
    /\ script = "weapons"
    /\ pc = "parse_lines"
    /\ li <= Len(lines)
    /\ LET st == WeaponStep(WeaponLocals, lines[li])
       IN  /\ source' = st.weapons
           /\ in_table' = st.in_table
    /\ li' = li + 1
    /\ UNCHANGED <<script, pc, text, lines, current_spell, current_damage,
                   effect_lines, crit_lines, in_crit, ret, compareVars>>

\* return weapons
WeaponParseReturn ==
    /\ script = "weapons"
    /\ pc = "parse_lines"
    /\ li > Len(lines)
    /\ pc' = "parsed"
    /\ UNCHANGED <<script, text, source, parserVars, ret, compareVars>>

(***************************************************************************)
(* Bounded input sets                                                      *)
(***************************************************************************)

\* All strings over the characters of alphabet with at most n characters.
RECURSIVE Strings(_, _)
Strings(alphabet, n) ==
    IF n = 0 THEN {""}
    ELSE LET shorter == Strings(alphabet, n - 1)
         IN  shorter \cup {s \o c : s \in shorter, c \in alphabet}

\* All sequences over pool with at most n elements.
RECURSIVE Seqs(_, _)
Seqs(pool, n) ==
    IF n = 0 THEN {<<>>}
    ELSE LET shorter == Seqs(pool, n - 1)
         IN  shorter \cup {Append(q, x) : q \in shorter, x \in pool}

\* The variables a run does not use keep these values.
IdleParser ==
    /\ lines = <<>>
    /\ li = 0
    /\ current_spell = None
    /\ current_damage = None
    /\ effect_lines = <<>>
    /\ crit_lines = <<>>
    /\ in_crit = FALSE
    /\ in_table = FALSE

IdleCompare ==
    /\ dir = <<>>
    /\ fi = 0
    /\ discrepancies = <<>>
    /\ generated_names = {}

(***************************************************************************)
(* normalize_text applied to a text, then to its own result                *)
(***************************************************************************)

MaxTextLen == 6

NormalizeAlphabet == {"<", ">", "a", " ", "\n", "^"}

InitNormalize ==
    /\ script = "perks"
    /\ pc = "normalize"
    /\ text \in Strings(NormalizeAlphabet, MaxTextLen)
    /\ source = NewDict
    /\ ret = <<>>
    /\ IdleParser
    /\ IdleCompare

NormalizeCall ==
    /\ pc = "normalize"
    /\ ret' = <<normalize_text(text)>>
    /\ pc' = "normalize_again"
    /\ UNCHANGED <<script, text, source, parserVars, compareVars>>

NormalizeAgain ==
    /\ pc = "normalize_again"
    /\ ret' = Append(ret, normalize_text(ret[1]))
    /\ pc' = "done"
    /\ UNCHANGED <<script, text, source, parserVars, compareVars>>

NextNormalize == NormalizeCall \/ NormalizeAgain

SpecNormalize == InitNormalize /\ [][NextNormalize]_vars

\* C6: normalize_text is idempotent: normalising the result of
\* normalize_text(x) again gives the same string, for every text x.
NormalizeIdempotent ==
    (pc = "done" /\ Len(ret) = 2) => ret[2] = ret[1]

\* C6 witness: a text with a tag, a whitespace run and a typographic quote has
\* been normalised twice, and the first pass changed it.
NormalizeIdempotentWitness ==
    /\ pc = "done" /\ Len(ret) = 2
    /\ Contains(text, "<a>")
    /\ Contains(text, "^")
    /\ ret[1] # text
    /\ ret[1] # ""

(***************************************************************************)
(* compare_perks on one perk present on both sides, over description pairs *)
(***************************************************************************)

MaxDescTokens == 2
MaxWords == 11

\* Short descriptions: a letter, a space, a tag, U+2018, U+2019 and the ASCII
\* apostrophe.
DescTokens == {"a", " ", "<i>", "@", "^", "'"}

ShortDescs == Strings(DescTokens, MaxDescTokens)

\* The one-letter words "a", "b", ... and descriptions made of a run of them,
\* starting at one of the first MaxRunStart letters.
MaxRunStart == 2

Word(i, upper) == IF upper THEN Ch(UpperCase, i) ELSE Ch(LowerCase, i)

WordRun(a, b, upper) == Join(" ", [k \in 1..(b - a + 1) |-> Word(a + k - 1, upper)])

WordDescs == {WordRun(a, b, u) : a \in 1..MaxRunStart, b \in 1..MaxWords, u \in BOOLEAN}

\* parse_source_perks stores a description that is non-empty and stripped.
ParsedDescription(d) == d # "" /\ Strip(d) = d

PerkDescPairs ==
    ({d \in ShortDescs : ParsedDescription(d)} \X ShortDescs)
    \cup ({d \in WordDescs : ParsedDescription(d)} \X WordDescs)

PerkSource(desc) ==
    DictSet(NewDict, "iron will",
            [name |-> "Iron Will", prerequisite |-> "", description |-> desc])

\* The generated file of the perk: with the description, with a system object
\* that has no description, or with no system object at all.
PerkFiles(desc) ==
    { [file |-> "iron-will.json",
       json |-> [name |-> "Iron Will", system |-> [description |-> desc]]] }
    \cup (IF desc = ""
          THEN { [file |-> "iron-will.json", json |-> [name |-> "Iron Will", system |-> EmptyDict]],
                 [file |-> "iron-will.json", json |-> [name |-> "Iron Will"]] }
          ELSE {})

InitPerks ==
    /\ script = "perks"
    /\ pc = "compare_files"
    /\ text = ""
    /\ \E pair \in PerkDescPairs :
          /\ source = PerkSource(pair[1])
          /\ \E f \in PerkFiles(pair[2]) : dir = <<f>>
    /\ fi = 1
    /\ discrepancies = <<>>
    /\ generated_names = {}
    /\ ret = <<>>
    /\ IdleParser

NextPerks == ComparePerksFile \/ CollectGeneratedNames \/ ReportMissing \/ CompareReturn

SpecPerks == InitPerks /\ [][NextPerks]_vars

\* The description pair of the perk under comparison.
SrcDescription == source.rec["iron will"].description
GenDescription == Get(Get(dir[1].json, "system", EmptyDict), "description", "")

\* Ten times the Jaccard index of two word sets is below nine (the index is 0
\* when either set is empty).
JaccardBelowNineTenths(A, B) ==
    \/ A = {}
    \/ B = {}
    \/ 10 * Cardinality(A \cap B) < 9 * Cardinality(A \cup B)

HasDescriptionMismatch ==
    \E i \in 1..Len(discrepancies) :
        /\ discrepancies[i].file = dir[1].file
        /\ "issues" \in DOMAIN discrepancies[i]
        /\ StartsWith(discrepancies[i].issues[1], "DESCRIPTION MISMATCH")

\* C4: for a generated perk whose lowercased name is a source key,
\* compare_perks records a DESCRIPTION MISMATCH exactly when the normalised
\* descriptions differ and the Jaccard index of their lowercase word sets
\* (0 when either is empty) is strictly below 0.9; otherwise the perk gets
\* no discrepancy entry at all.
PerkMismatchIffBelowThreshold ==
    (script = "perks" /\ pc = "done") =>
        LET s == normalize_text(SrcDescription)
            g == normalize_text(GenDescription)
            expected == s # g /\ JaccardBelowNineTenths(ToSet(Words(Lower(s))),
                                                        ToSet(Words(Lower(g))))
        IN  /\ HasDescriptionMismatch <=> expected
            /\ ~expected => discrepancies = <<>>

\* C4 witness: the comparison has returned for a pair whose normalised
\* descriptions differ with a Jaccard index of exactly 9/10, and for which
\* nothing was reported.
PerkMismatchAtThresholdWitness ==
    /\ script = "perks" /\ pc = "done"
    /\ LET s == normalize_text(SrcDescription)
           g == normalize_text(GenDescription)
           A == ToSet(Words(Lower(s)))
           B == ToSet(Words(Lower(g)))
       IN  /\ s # g
           /\ Cardinality(A \cap B) = 9
           /\ Cardinality(A \cup B) = 10
    /\ discrepancies = <<>>

\* Every typographic quote replaced by its ASCII equivalent: U+2018 and
\* U+2019 by the apostrophe, U+201C and U+201D by the double quote.
Straighten(s) ==
    Replace(Replace(Replace(Replace(s, "@", "'"), "^", "'"), "{", "\""), "}", "\"")

\* Two texts that differ only by trailing whitespace and by typographic
\* quotes against their ASCII equivalents.
SameUpToQuotesAndTrailingSpace(s, g) == RStrip(Straighten(s)) = RStrip(Straighten(g))

\* C3 as claimed: for every pair of perk descriptions that differ only by
\* trailing whitespace and by curly quotes or apostrophes against their
\* straight ASCII equivalents, compare_perks reports no discrepancy.
QuotesAndTrailingSpaceAbsorbed ==
    (script = "perks" /\ pc = "done"
       /\ SameUpToQuotesAndTrailingSpace(SrcDescription, GenDescription))
    => discrepancies = <<>>

(***************************************************************************)
(* compare_perks, compare_spells and compare_weapons over source mappings  *)
(* and directories whose names match, differ in case or do not match       *)
(***************************************************************************)

MaxFiles == 2

\* Names of generated items; "ab" and "Ab" share a lowercased form.
GeneratedNames == {"Ab", "ab", "Cd"}

\* The source record of an item, as the script's parser builds it.
SourceRecord(scr, name) ==
    CASE scr = "perks" ->
           [name |-> name, prerequisite |-> "", description |-> "x y"]
      [] scr = "spells" ->
           [name |-> name, damage |-> "fire", effect |-> "x y", crit |-> "z"]
      [] OTHER ->
           [name |-> name, damage |-> "d6", grip |-> "1H", range |-> "Close",
            properties |-> "-", value |-> "1g", slots |-> "1"]

\* Source mappings: items among "Ab", "Cd" and "Ef" (which no file generates)
\* under their lowercased names, in the order the parser inserted them.
RECURSIVE SourceOf(_, _)
SourceOf(scr, names) ==
    IF names = <<>> THEN NewDict
    ELSE DictSet(SourceOf(scr, SubSeq(names, 1, Len(names) - 1)),
                 Lower(names[Len(names)]),
                 SourceRecord(scr, names[Len(names)]))

SourceNameLists ==
    {<<>>, <<"Ab">>, <<"Cd">>, <<"Ab", "Cd">>, <<"Cd", "Ab">>, <<"Ef", "Ab">>}

\* A system object that agrees with SourceRecord and one that does not.
SystemObjects(scr) ==
    CASE scr = "perks" -> {[description |-> "x y"], [description |-> "q"]}
      [] scr = "spells" ->
           {[damageType |-> "fire", effect |-> "x y", critEffect |-> "z"],
            [damageType |-> "cold", effect |-> "x y", critEffect |-> "z"]}
      [] OTHER ->
           {[damage |-> "1d6", grip |-> "1h", value |-> 100, slots |-> 1],
            [damage |-> "1d8", grip |-> "1h", value |-> 100, slots |-> 1]}

FileName(i) == Ch(LowerCase, i) \o ".json"

\* The directory listings: for each of the first MaxFiles file names either no
\* file or a JSON file, in file-name order, and possibly a file that is not
\* JSON, which sorts behind them.
RECURSIVE JsonListings(_, _)
JsonListings(scr, n) ==
    IF n = 0 THEN {<<>>}
    ELSE LET shorter == JsonListings(scr, n - 1)
         IN  shorter
             \cup {Append(q, [file |-> FileName(n), json |-> [name |-> nm, system |-> sys]]) :
                      q \in shorter, nm \in GeneratedNames, sys \in SystemObjects(scr)}

Listings(scr) ==
    LET json == JsonListings(scr, MaxFiles)
    IN  json \cup {Append(q, [file |-> "notes.txt", json |-> [name |-> "Cd"]]) : q \in json}

Init ==
    /\ script \in {"perks", "spells", "weapons"}
    /\ pc = "compare_files"
    /\ text = ""
    /\ source \in {SourceOf(script, names) : names \in SourceNameLists}
    /\ dir \in Listings(script)
    /\ fi = 1
    /\ discrepancies = <<>>
    /\ generated_names = {}
    /\ ret = <<>>
    /\ IdleParser

Next ==
    \/ ComparePerksFile
    \/ CompareSpellsFile
    \/ CompareWeaponsFile
    \/ CollectGeneratedNames
    \/ ReportMissing
    \/ CompareReturn

Spec == Init /\ [][Next]_vars

\* The generated JSON files and the entries of the two unmatched kinds.
JsonFiles == {i \in 1..Len(dir) : EndsWith(dir[i].file, ".json")}

IsNotInSource(d) == "issue" \in DOMAIN d /\ StartsWith(d.issue, "NOT IN SOURCE")

IsMissing(d) == "issue" \in DOMAIN d /\ StartsWith(d.issue, "MISSING")

\* C1: the list returned by compare_perks, compare_spells or compare_weapons
\* holds exactly one NOT IN SOURCE entry, with the file's name and no field
\* issues, for every generated file whose lowercased name is no source key,
\* exactly one MISSING entry with file marker "MISSING" for every source key
\* that is the lowercased name of no generated file, and no entry of either
\* kind for a name present on both sides.
UnmatchedReportedOnce ==
    pc = "done" =>
        LET out == ret[1]
            keys == DOMAIN source.rec
            names == {Lower(dir[i].json.name) : i \in JsonFiles}
            entries == 1..Len(out)
        IN  /\ \A i \in JsonFiles :
                  Lower(dir[i].json.name) \notin keys =>
                      Cardinality({e \in entries :
                                      /\ IsNotInSource(out[e])
                                      /\ out[e].file = dir[i].file
                                      /\ out[e][ItemField] = dir[i].json.name
                                      /\ "issues" \notin DOMAIN out[e]}) = 1
            /\ \A k \in keys :
                  k \notin names =>
                      Cardinality({e \in entries :
                                      /\ IsMissing(out[e])
                                      /\ out[e].file = "MISSING"
                                      /\ out[e][ItemField] = source.rec[k].name}) = 1
            /\ \A e \in entries :
                  /\ IsNotInSource(out[e]) =>
                        \E i \in JsonFiles :
                            /\ out[e].file = dir[i].file
                            /\ Lower(dir[i].json.name) \notin keys
                  /\ (IsMissing(out[e]) \/ out[e].file = "MISSING") =>
                        /\ Lower(out[e][ItemField]) \in keys
                        /\ Lower(out[e][ItemField]) \notin names
            /\ Cardinality({e \in entries : IsNotInSource(out[e])})
                  = Cardinality({i \in JsonFiles : Lower(dir[i].json.name) \notin keys})
            /\ Cardinality({e \in entries : IsMissing(out[e])})
                  = Cardinality({k \in keys : k \notin names})

\* C1 witness: a comparison has returned a list with a NOT IN SOURCE entry, a
\* MISSING entry and an entry of field issues, from a directory that also
\* holds a file that is not JSON.
UnmatchedReportedOnceWitness ==
    /\ pc = "done"
    /\ \E e \in 1..Len(ret[1]) : IsNotInSource(ret[1][e])
    /\ \E e \in 1..Len(ret[1]) : IsMissing(ret[1][e])
    /\ \E e \in 1..Len(ret[1]) : "issues" \in DOMAIN ret[1][e]
    /\ \E i \in 1..Len(dir) : ~EndsWith(dir[i].file, ".json")

(***************************************************************************)
(* parse_value_to_copper applied to a value string                         *)
(***************************************************************************)

MaxValueLen == 4

ValueAlphabet == {"1", "5", "g", "s", "-"}

InitValue ==
    /\ script = "weapons"
    /\ pc = "value"
    /\ text \in Strings(ValueAlphabet, MaxValueLen)
    /\ source = NewDict
    /\ ret = <<>>
    /\ IdleParser
    /\ IdleCompare

ValueCall ==
    /\ pc = "value"
    /\ ret' = <<parse_value_to_copper(text)>>
    /\ pc' = "done"
    /\ UNCHANGED <<script, text, source, parserVars, compareVars>>

NextValue == ValueCall

SpecValue == InitValue /\ [][NextValue]_vars

\* The count in front of the first occurrence of "digits then suffix" in s, 0
\* when there is none: the digits from the least position i from which only
\* digits lead up to the suffix character.
CountBefore(s, suffix) ==
    LET spans == {p \in (1..Len(s)) \X (1..Len(s)) :
                     /\ p[1] <= p[2]
                     /\ p[2] < Len(s)
                     /\ \A k \in p[1]..p[2] : IsDigit(Ch(s, k))
                     /\ Ch(s, p[2] + 1) = suffix}
    IN  IF spans = {} THEN 0
        ELSE LET first == CHOOSE p \in spans : \A q \in spans : p[1] <= q[1]
             IN  DigitsValue(SubSeq(s, first[1], first[2]))

\* C8: parse_value_to_copper returns 100 times the gold count plus 10 times
\* the silver count extracted from the value string, text matching neither
\* suffix contributing 0; "1g" gives 100, "5s" 50, "1g5s" 150, "-" and the
\* empty string 0; the result is a non-negative integer.
ValueInCopper ==
    (pc = "done" /\ script = "weapons" /\ Len(ret) = 1 /\ dir = <<>>) =>
        /\ ret[1] = 100 * CountBefore(text, "g") + 10 * CountBefore(text, "s")
        /\ ret[1] \in Nat
        /\ text = "1g" => ret[1] = 100
        /\ text = "5s" => ret[1] = 50
        /\ text = "1g5s" => ret[1] = 150
        /\ text = "-" => ret[1] = 0
        /\ text = "" => ret[1] = 0

\* C8 witness: the call on "1g5s" has returned 150.
ValueInCopperWitness ==
    pc = "done" /\ script = "weapons" /\ dir = <<>> /\ text = "1g5s" /\ ret = <<150>>

(***************************************************************************)
(* compare_weapons on one weapon present on both sides                     *)
(***************************************************************************)

MaxDamageTokens == 3
MaxSlotsLen == 2

\* Damage strings: counts, dice, and both.
DamageStrings == Strings({"1", "2", "d6"}, MaxDamageTokens)

\* Slot fields: numbers, the placeholder, the empty field and fields int()
\* rejects.
SlotsFields == Strings({"1", "2", "-", "x"}, MaxSlotsLen)

WeaponSource(damage, grip, value, slots) ==
    DictSet(NewDict, "dagger",
            [name |-> "Dagger", damage |-> damage, grip |-> grip, range |-> "Close",
             properties |-> "Light", value |-> value, slots |-> slots])

WeaponFile(system) ==
    << [file |-> "dagger.json", json |-> [name |-> "Dagger", system |-> system]] >>

\* Pairs of a source mapping and a directory.  First family: every pair of
\* damage strings (and a generated weapon with no damage field), the other
\* fields agreeing.  Second family: every slot field against generated slot
\* counts (and none), with damage, grip and value each agreeing or not.
WeaponCases ==
    {<<WeaponSource(sd, "1H", "2s", "1"),
       WeaponFile([damage |-> gd, grip |-> "1h", value |-> 20, slots |-> 1])>> :
          sd \in DamageStrings, gd \in DamageStrings}
    \cup {<<WeaponSource(sd, "1H", "2s", "1"),
            WeaponFile([grip |-> "1h", value |-> 20, slots |-> 1])>> :
          sd \in DamageStrings}
    \cup {<<WeaponSource("d4", "V", "2s", sl),
            WeaponFile([damage |-> gd, grip |-> gg, value |-> gv, slots |-> gs])>> :
          sl \in SlotsFields, gd \in {"1d4", "1d8"}, gg \in {"versatile", "1h"},
          gv \in {20, 25}, gs \in 0..2}
    \cup {<<WeaponSource("d4", "V", "2s", sl),
            WeaponFile([damage |-> gd, grip |-> gg, value |-> gv])>> :
          sl \in SlotsFields, gd \in {"1d4", "1d8"}, gg \in {"versatile", "1h"},
          gv \in {20, 25}}

InitWeapons ==
    /\ script = "weapons"
    /\ pc = "compare_files"
    /\ text = ""
    /\ \E case \in WeaponCases : source = case[1] /\ dir = case[2]
    /\ fi = 1
    /\ discrepancies = <<>>
    /\ generated_names = {}
    /\ ret = <<>>
    /\ IdleParser

NextWeapons == CompareWeaponsFile \/ CollectGeneratedNames \/ ReportMissing \/ CompareReturn

SpecWeapons == InitWeapons /\ [][NextWeapons]_vars

\* The weapon under comparison and whether its entry holds an issue that
\* starts with a given label.
SrcWeapon == source.rec["dagger"]
GenWeapon == Get(dir[1].json, "system", EmptyDict)

HasIssue(label) ==
    \E e \in 1..Len(discrepancies) :
        /\ discrepancies[e].file = dir[1].file
        /\ "issues" \in DOMAIN discrepancies[e]
        /\ \E k \in 1..Len(discrepancies[e].issues) :
              StartsWith(discrepancies[e].issues[k], label)

\* The source damage omits a leading count.
OmitsCount(damage) == damage = "" \/ ~IsDigit(Ch(damage, 1))

\* Equivalence of a source and a generated damage string: they are equal, or
\* the source omits the count and is the generated string without its "1".
DamageEquivalent(src_damage, gen_damage) ==
    \/ src_damage = gen_damage
    \/ OmitsCount(src_damage) /\ "1" \o src_damage = gen_damage

\* C2 as claimed: the source damage gets an implicit "1" only when it omits a
\* leading count, a source with a leading count is compared unchanged, and a
\* DAMAGE issue is reported exactly when source and generated damage are not
\* equivalent under this rule.
DamageIssueIffNotEquivalent ==
    (script = "weapons" /\ pc = "done" /\ dir # <<>>) =>
        (HasIssue("DAMAGE") <=>
            ~DamageEquivalent(SrcWeapon.damage, Get(GenWeapon, "damage", "")))

\* A slot field int() accepts: an optional sign, then digits only.
IsIntLiteral(field) ==
    LET body == IF field # "" /\ Ch(field, 1) \in {"+", "-"} THEN Tail(field) ELSE field
    IN  body # "" /\ \A k \in 1..Len(body) : IsDigit(Ch(body, k))

\* C7: a source slot field that is "-" or empty is compared as 0 against the
\* generated slots (0 when the field is absent); a slot field that fails
\* integer parsing raises no error and adds no SLOTS issue, and the damage,
\* grip and value issues of the same weapon are reported as they are for any
\* other slot field.
SlotsParseFailureSwallowed ==
    /\ script = "weapons" => pc # "error"
    /\ (script = "weapons" /\ pc = "done" /\ dir # <<>>) =>
          LET field == Strip(SrcWeapon.slots)
          IN  /\ field \in {"-", ""} =>
                    (HasIssue("SLOTS") <=> 0 # Get(GenWeapon, "slots", 0))
              /\ (field \notin {"-", ""} /\ ~IsIntLiteral(field)) =>
                    /\ ~HasIssue("SLOTS")
                    /\ HasIssue("DAMAGE") <=> WeaponDamageIssues(SrcWeapon, GenWeapon) # <<>>
                    /\ HasIssue("GRIP") <=> WeaponGripIssues(SrcWeapon, GenWeapon) # <<>>
                    /\ HasIssue("VALUE") <=> WeaponValueIssues(SrcWeapon, GenWeapon) # <<>>

\* C7 witness: compare_weapons has returned for a weapon whose slot field "x"
\* int() rejects, with its damage, grip and value issues and no SLOTS issue.
SlotsParseFailureWitness ==
    /\ script = "weapons" /\ pc = "done" /\ dir # <<>>
    /\ SrcWeapon.slots = "x"
    /\ HasIssue("DAMAGE") /\ HasIssue("GRIP") /\ HasIssue("VALUE")
    /\ ~HasIssue("SLOTS")

(***************************************************************************)
(* parse_source_perks over texts of a few pieces                           *)
(***************************************************************************)

MaxPerkPieces == 4

\* Pieces of source text: the three category headers (one with a trailing
\* space), a perk header alone and one with its description, a header that is
\* a category header in lowercase, a line of description, a prerequisite line
\* and the section marker.
PerkPieces ==
    {"### Stat-Based Perks (No Training Required)", "### Spell-Based Perks ",
     "### No Prerequisites", "### Iron Will", "### Iron Will\nText",
     "### spell-based perks", "Text", "**Prerequisite:** x", SectionMarker}

TextsOf(pool, n) == {Join("\n", q) : q \in Seqs(pool, n)}

InitPerkParse ==
    /\ script = "perks"
    /\ pc = "parse"
    /\ text \in TextsOf(PerkPieces, MaxPerkPieces)
    /\ source = NewDict
    /\ ret = <<>>
    /\ IdleParser
    /\ IdleCompare

NextPerkParse == PerkParseStart \/ PerkParseBlock \/ PerkParseReturn

SpecPerkParse == InitPerkParse /\ [][NextPerkParse]_vars

\* The name on the header line of a level-3 block: the text between "### "
\* and the end of that line, without surrounding whitespace.
HeaderName(block) == Strip(SplitOn(block, "\n")[1])

\* C9: parse_source_perks produces no record for a level-3 block whose header
\* name is a recognised category header, whatever lines follow the header:
\* handling such a block leaves the mapping as it was.
CategoryBlockAddsNoRecord ==
    [][ (script = "perks" /\ pc = "parse_blocks" /\ li <= Len(lines)
           /\ HeaderName(lines[li])
                \in {"Stat-Based Perks (No Training Required)", "Spell-Based Perks",
                     "No Prerequisites"})
        => source' = source ]_vars

\* C9 witness: the parser has returned for a text in which a category header
\* (written with a trailing space) is followed by a line of description, and
\* the mapping holds a perk but not the category.
CategoryBlockWitness ==
    /\ script = "perks" /\ pc = "parsed"
    /\ Contains(text, "\n### Spell-Based Perks \nText")
    /\ In("iron will", source)
    /\ ~In("spell-based perks", source)

(***************************************************************************)
(* parse_source_spells over texts of a few lines                           *)
(***************************************************************************)

MaxSpellLines == 4

\* Two spell headers, a crit marker with text behind it, two lines of
\* content, a separator, an empty line and a damage line.
SpellLines ==
    {"## Aa", "## Bb", "**Crit:** x", "e", "f", "---", "", "**Damage Base:** -"}

InitSpellParse ==
    /\ script = "spells"
    /\ pc = "parse"
    /\ text \in TextsOf(SpellLines, MaxSpellLines)
    /\ source = NewDict
    /\ ret = <<>>
    /\ IdleParser
    /\ IdleCompare

NextSpellParse == SpellParseStart \/ SpellParseLine \/ SpellParseReturn

SpecSpellParse == InitSpellParse /\ [][NextSpellParse]_vars

\* The lines of the text as the parser reads them, and their kinds.
InputLines == LET raw == SplitOn(Strip(text), "\n") IN [i \in 1..Len(raw) |-> RStrip(raw[i])]

IsHeaderLine(l) == StartsWith(l, "## ")
IsDamageLine(l) == StartsWith(l, "**Damage Base:**")
IsCritMarker(l) == StartsWith(l, "**Crit:**")
IsContentLine(l) ==
    l # "" /\ ~StartsWith(l, "---") /\ ~IsHeaderLine(l) /\ ~IsDamageLine(l) /\ ~IsCritMarker(l)

\* The header of the block that line i lies in, 0 before the first header.
BlockOf(L, i) ==
    LET hs == {h \in 1..i : IsHeaderLine(L[h])}
    IN  IF hs = {} THEN 0 ELSE CHOOSE h \in hs : \A g \in hs : g <= h

\* A crit marker stands between the header of line i's block and line i.
AfterCritMarker(L, i) == \E j \in (BlockOf(L, i) + 1)..(i - 1) : IsCritMarker(L[j])

\* What line i contributes to the effect and to the crit of block h.
EffectPiece(L, h, i) ==
    IF BlockOf(L, i) = h /\ IsContentLine(L[i]) /\ ~AfterCritMarker(L, i)
    THEN <<L[i]>> ELSE <<>>

CritPiece(L, h, i) ==
    IF BlockOf(L, i) # h THEN <<>>
    ELSE IF IsCritMarker(L[i])
    THEN LET tail == Strip(Replace(L[i], "**Crit:**", ""))
         IN  IF tail # "" THEN <<tail>> ELSE <<>>
    ELSE IF IsContentLine(L[i]) /\ AfterCritMarker(L, i) THEN <<L[i]>>
    ELSE <<>>

RECURSIVE EffectPieces(_, _, _)
EffectPieces(L, h, i) ==
    IF i > Len(L) THEN <<>> ELSE EffectPiece(L, h, i) \o EffectPieces(L, h, i + 1)

RECURSIVE CritPieces(_, _, _)
CritPieces(L, h, i) ==
    IF i > Len(L) THEN <<>> ELSE CritPiece(L, h, i) \o CritPieces(L, h, i + 1)

SpellNameAt(L, h) == Strip(SubSeq(L[h], 4, Len(L[h])))

\* C10: parse_source_spells keeps the effect and crit buffers of each spell
\* apart: the record of every spell holds as effect exactly the content lines
\* of its own block before the first crit marker, and as crit exactly the
\* marker's trailing text and the content lines behind the marker; every
\* header starts a block in effect mode with empty buffers, so a record holds
\* no line of another block.  (Of two blocks with the same lowercased name the
\* later one's record is the one kept.)
SpellBuffersSeparate ==
    (script = "spells" /\ pc = "parsed") =>
        LET L == InputLines
            headers == {h \in 1..Len(L) : IsHeaderLine(L[h])}
            last == {h \in headers :
                        \A g \in headers :
                            Lower(SpellNameAt(L, g)) = Lower(SpellNameAt(L, h)) => g <= h}
        IN  /\ DOMAIN source.rec = {Lower(SpellNameAt(L, h)) : h \in headers}
            /\ \A h \in last :
                  LET r == source.rec[Lower(SpellNameAt(L, h))]
                  IN  /\ r.name = SpellNameAt(L, h)
                      /\ r.effect = Strip(Join("\n", EffectPieces(L, h, h + 1)))
                      /\ r.crit = Strip(Join("\n", CritPieces(L, h, h + 1)))

\* C10 witness: the parser has returned two spells; the first was in crit mode
\* when the second header came, and the second spell's content line is in its
\* effect and not in any crit.
SpellBuffersWitness ==
    /\ script = "spells" /\ pc = "parsed"
    /\ text = "## Aa\n**Crit:** x\n## Bb\ne"
    /\ source.rec["aa"].crit = "x" /\ source.rec["aa"].effect = ""
    /\ source.rec["bb"].effect = "e" /\ source.rec["bb"].crit = ""

(***************************************************************************)
(* validate_spells.py: parse_source_spells, then compare_spells            *)
(***************************************************************************)

MaxSourceLines == 3

\* A spell with or without a damage line (naming a type, or marking it
\* absent), an effect line and a crit line.
SourceLines ==
    {"## Light", "**Damage Base:** Fire", "**Damage Base:** -", "Glows", "**Crit:** Burns"}

\* The generated system object: each field absent or present.
OptionalField(name, values) == {EmptyDict} \cup {(name :> v) : v \in values}

SpellSystems ==
    {d @@ e @@ c : d \in OptionalField("damageType", {"", "fire"}),
                   e \in OptionalField("effect", {"Glows", "Glows ", "Dims"}),
                   c \in OptionalField("critEffect", {"Burns"})}

InitSpells ==
    /\ script = "spells"
    /\ pc = "parse"
    /\ text \in TextsOf(SourceLines, MaxSourceLines)
    /\ source = NewDict
    /\ \E sys \in SpellSystems :
          dir = << [file |-> "light.json", json |-> [name |-> "Light", system |-> sys]] >>
    /\ fi = 0
    /\ discrepancies = <<>>
    /\ generated_names = {}
    /\ ret = <<>>
    /\ IdleParser

NextSpells ==
    \/ SpellParseStart
    \/ SpellParseLine
    \/ SpellParseReturn
    \/ MainCompare
    \/ CompareSpellsFile
    \/ CollectGeneratedNames
    \/ ReportMissing
    \/ CompareReturn

SpecSpells == InitSpells /\ [][NextSpells]_vars

\* The spell under comparison, once compare_spells has returned with it.
SpellCompared == script = "spells" /\ pc = "done" /\ dir # <<>> /\ In("light", source)
SrcSpell == source.rec["light"]
GenSpell == Get(dir[1].json, "system", EmptyDict)

HasSpellIssues ==
    \E e \in 1..Len(discrepancies) :
        discrepancies[e].file = dir[1].file /\ "issues" \in DOMAIN discrepancies[e]

EffectsEqual == normalize_text(SrcSpell.effect) = normalize_text(Get(GenSpell, "effect", ""))
CritsEqual == normalize_text(SrcSpell.crit) = normalize_text(Get(GenSpell, "critEffect", ""))

\* The source has no damage type: no damage line, or one that marks it absent.
\* The generated spell has none: no damageType field, or an empty one.
SourceHasNoDamageType == SrcSpell.damage \in {None, ""}
GeneratedHasNoDamageType == Get(GenSpell, "damageType", "") = ""

\* C5 as claimed: for a generated spell found in the source, compare_spells
\* records a mismatch exactly when the damage type, the normalised effect or
\* the normalised crit differs (an absent generated field read as the empty
\* string); when all three agree, also when neither side has a damage type,
\* nothing is recorded for the spell.
SpellMismatchIffFieldDiffers ==
    SpellCompared =>
        /\ HasSpellIssues <=>
              \/ Get(GenSpell, "damageType", "") # SrcSpell.damage
              \/ ~EffectsEqual
              \/ ~CritsEqual
        /\ ( /\ \/ Get(GenSpell, "damageType", "") = SrcSpell.damage
                \/ SourceHasNoDamageType /\ GeneratedHasNoDamageType
             /\ EffectsEqual
             /\ CritsEqual )
           => discrepancies = <<>>

(***************************************************************************)
(* parse_source_weapons over bounded texts                                 *)
(***************************************************************************)

MaxWeaponPieces == 4

\* Lines of source text: the header row, a separator row, a row of seven
\* columns, a row with the same key in another case, other fields and text
\* behind its last pipe, a row of six columns, a line of prose, a header row
\* written without spaces and a separator row written with spaces.
WeaponPieces ==
    {WeaponHeader, "|---|---|---|---|---|---|---|",
     "| Axe | d8 | 2H | Close | Brawl | 5g | 2 |",
     "|axe|d6|1H|Near|-|1s|-| x",
     "| Club | d4 | 1H | Close | - | 1s |",
     "Notes",
     "|Weapon|a|b|c|d|e|f|",
     "| --- | - | - | - | - | - | - |"}

InitWeaponParse ==
    /\ script = "weapons"
    /\ pc = "parse"
    /\ text \in TextsOf(WeaponPieces, MaxWeaponPieces)
    /\ source = NewDict
    /\ ret = <<>>
    /\ IdleParser
    /\ IdleCompare

NextWeaponParse == WeaponParseStart \/ WeaponParseLine \/ WeaponParseReturn

SpecWeaponParse == InitWeaponParse /\ [][NextWeaponParse]_vars

\* The input lines, and how many of them the loop has handled.
InputRows == SplitOn(text, "\n")

HandledRows == IF pc = "parse" THEN 0 ELSE IF pc = "parse_lines" THEN li - 1 ELSE Len(InputRows)

\* The columns of a row that starts with a pipe: the texts between one pipe
\* and the next, trimmed.
PipePositions(row) == {p \in 1..Len(row) : Ch(row, p) = "|"}

NthPipe(row, n) ==
    CHOOSE p \in PipePositions(row) : Cardinality({q \in PipePositions(row) : q <= p}) = n

ColumnCount(row) == Cardinality(PipePositions(row)) - 1

Column(row, n) == Strip(SubSeq(row, NthPipe(row, n) + 1, NthPipe(row, n + 1) - 1))

IsHeaderRow(row) == Contains(row, WeaponHeader)

IsSeparatorRow(row) == StartsWith(row, "|---")

\* Row i lies inside a table: a header row precedes it and every line between
\* the two starts with a pipe.
InsideTable(i) ==
    LET rows == InputRows
    IN  \E j \in 1..(i - 1) :
            /\ IsHeaderRow(rows[j])
            /\ \A k \in (j + 1)..(i - 1) : StartsWith(rows[k], "|")

\* A row of at least seven columns that is neither header nor separator.
IsDataRow(row) ==
    /\ StartsWith(row, "|")
    /\ ColumnCount(row) >= 7
    /\ ~IsHeaderRow(row)
    /\ ~IsSeparatorRow(row)

FirstSevenColumns(row) ==
    [name |-> Column(row, 1), damage |-> Column(row, 2), grip |-> Column(row, 3),
     range |-> Column(row, 4), properties |-> Column(row, 5),
     value |-> Column(row, 6), slots |-> Column(row, 7)]

\* C11: every record of parse_source_weapons comes from a pipe-delimited row
\* of at least seven columns that lies inside a table (after a header row,
\* with no line between that does not start with a pipe); rows outside a
\* table, header rows and separator rows give no record; the record's seven
\* fields are the row's first seven trimmed columns in order.
WeaponRecordsFromTableRows ==
    script = "weapons" /\ pc \in {"parse", "parse_lines", "parsed"} =>
        LET rows == InputRows
        IN  \A key \in DOMAIN source.rec :
                \E i \in 1..HandledRows :
                    /\ IsDataRow(rows[i])
                    /\ key = Lower(Column(rows[i], 1))
                    /\ InsideTable(i)
                    /\ source.rec[key] = FirstSevenColumns(rows[i])

\* The parser has returned; the text holds a row of seven columns outside any
\* table whose columns are no record, a separator row inside a table, and a
\* row inside a table whose columns are the one record.
WeaponRecordsWitness ==
    /\ script = "weapons"
    /\ pc = "parsed"
    /\ Len(source.keys) = 1
    /\ \E i \in 1..Len(InputRows) :
          /\ IsDataRow(InputRows[i])
          /\ ~InsideTable(i)
          /\ source.rec[source.keys[1]] # FirstSevenColumns(InputRows[i])
    /\ \E i \in 1..Len(InputRows) : IsSeparatorRow(InputRows[i]) /\ InsideTable(i)
    /\ \E i \in 1..Len(InputRows) :
          /\ IsDataRow(InputRows[i])
          /\ InsideTable(i)
          /\ source.rec[source.keys[1]] = FirstSevenColumns(InputRows[i])

====
